---- MODULE Spec2Model ----
(***************************************************************************)
(* Day 32 age counter: calculate_detailed_age (age_logic.py) and the       *)
(* AgeCounterUI that calls it once per second (ui.py).                     *)
(*                                                                         *)
(* Spec    : the calculator as a pure function over bounded instants,      *)
(*           called once and then re-called as the reference advances by   *)
(*           one second.                                                   *)
(* SpecUI  : the Tk application: Start Count presses, the clock, and the   *)
(*           pending root.after(1000, update_ui) callbacks.                *)
(* SpecThreads : calls of the calculator interleaved line by line, each   *)
(*           with the locals of its own frame.                             *)
(***************************************************************************)
EXTENDS Integers, Sequences, FiniteSets, TLC

VARIABLES
    origin,        \* dob argument of calculate_detailed_age
    reference,     \* now argument of calculate_detailed_age
    result,        \* what the last call returned (or the error it raised)
    prevResult,    \* what the call one second earlier returned
    prevReference, \* the reference of that earlier call
    pc,            \* "init" before the first call, "called" after
    ticks,         \* one-second advances of reference so far
    clock,         \* dt.datetime.now(), to the second
    dob,           \* AgeCounterUI.dob
    last_second,   \* AgeCounterUI.last_second
    pending,       \* due times of the update_ui callbacks queued with root.after
    flashes,       \* queued callbacks of flash_red that turn the label black again
    labelText,     \* breakdown shown by AgeCounterUI.label
    labelFg,       \* colour of AgeCounterUI.label
    errorText,     \* text of AgeCounterUI.error
    history,       \* dob_history.csv, column "dob"
    dropdown_var,  \* AgeCounterUI.dropdown_var
    lastCall,      \* arguments of the last calculate_detailed_age call made by update_ui
    presses,       \* Start Count presses so far
    targs,         \* per thread: the (now, dob) its call was given
    tpc,           \* per thread: the line of calculate_detailed_age it is at
    frames,        \* the local variables of each call frame
    tret,          \* per thread: what its call returned or raised
    overlapped,    \* a thread has run while another was inside its call
    reps,          \* pomodoro: state.reps
    timer,         \* pomodoro: state.timer, the id window.after returned last
    callbacks,     \* pomodoro: countdown callbacks queued with window.after, oldest first
    nextId,        \* pomodoro: the number Tk gives the next after-callback
    timer_text,    \* pomodoro: <<minutes, seconds>> drawn on the canvas
    title_label,   \* pomodoro: text of the title label
    check_marks,   \* pomodoro: characters of the check-mark box
    startPresses,  \* pomodoro: Start presses so far
    resetPresses,  \* pomodoro: Reset presses so far
    sinceReset,    \* pomodoro: Reset was pressed and Start has not been pressed since
    session,       \* flasky: the session of the browser
    lastRequest,   \* flasky: the request served last and what it was answered
    prevRoute      \* flasky: the route of the request served before it

calcVars == <<origin, reference, result, prevResult, prevReference, pc, ticks>>
uiVars == <<clock, dob, last_second, pending, flashes, labelText, labelFg,
           errorText, history, dropdown_var, lastCall, presses>>
vars == <<origin, reference, result, prevResult, prevReference, pc, ticks,
          clock, dob, last_second, pending, flashes, labelText, labelFg,
          errorText, history, dropdown_var, lastCall, presses,
          targs, tpc, frames, tret, overlapped,
          reps, timer, callbacks, nextId, timer_text, title_label, check_marks,
          startPresses, resetPresses, sinceReset,
          session, lastRequest, prevRoute>>
thrVars == <<targs, tpc, frames, tret, overlapped>>
pomVars == <<reps, timer, callbacks, nextId, timer_text, title_label, check_marks,
            startPresses, resetPresses, sinceReset>>
webVars == <<session, lastRequest, prevRoute>>

----------------------------------------------------------------------------
(* Bounds *)

FirstYear == 1999
LastYear == 2001
OriginYearSpan == 1
MaxTicks == 1
MaxPresses == 3
MaxClockSeconds == 2
NumThreads == 2
\* lengths of the pomodoro sessions in seconds, WORK_MIN * SECONDS_PER_MIN and
\* so on in start_timer, shortened to a few ticks each
WorkSeconds == 2
ShortBreakSeconds == 1
LongBreakSeconds == 2
\* sessions started before the pomodoro model stops, and button presses on it
MaxReps == 9
MaxTimerPresses == 3

Years == FirstYear..LastYear
OriginYears == FirstYear..(FirstYear + OriginYearSpan)
Months == 1..12
Days == {1, 15, 28, 29, 30, 31}
OriginTimes == { <<0, 0, 0>>, <<10, 0, 0>> }
ReferenceTimes == { <<0, 0, 0>>, <<9, 59, 59>>, <<10, 0, 0>>, <<23, 59, 59>> }

----------------------------------------------------------------------------
(* datetime: the proleptic Gregorian calendar of dt.datetime *)

IsLeapNoFourHundred(y) == (y % 4 = 0) /\ (y % 100 # 0)

IsLeap(y) == (y % 4 = 0) /\ ((y % 100 # 0) \/ (y % 400 = 0))

DaysInMonth(y, m) ==
    IF m = 2 /\ IsLeap(y) THEN 29
    ELSE <<31, 28, 31, 30, 31, 30, 31, 31, 30, 31, 30, 31>>[m]

DaysBeforeYear(y) ==
    365 * (y - 1) + ((y - 1) \div 4) - ((y - 1) \div 100) + ((y - 1) \div 400)

DaysBeforeMonth(y, m) ==
    <<0, 31, 59, 90, 120, 151, 181, 212, 243, 273, 304, 334>>[m]
        + (IF m > 2 /\ IsLeap(y) THEN 1 ELSE 0)

ToOrdinal(y, m, d) == DaysBeforeYear(y) + DaysBeforeMonth(y, m) + d

Instant(y, m, d, h, mi, s) ==
    [year |-> y, month |-> m, day |-> d, hour |-> h, minute |-> mi, second |-> s]

\* datetime.toordinal() and the second within the day
OrdinalOf(t) == ToOrdinal(t.year, t.month, t.day)
SecondOfDay(t) == t.hour * 3600 + t.minute * 60 + t.second

\* a - b in seconds, as datetime.__sub__ computes it: day difference and
\* second-of-day difference
SecondsBetween(a, b) ==
    (OrdinalOf(a) - OrdinalOf(b)) * 86400 + (SecondOfDay(a) - SecondOfDay(b))

\* datetime comparison a > b
Later(a, b) == SecondsBetween(a, b) > 0

\* Python tuple comparison (a1, a2) < (b1, b2)
TupleLess(a1, a2, b1, b2) == (a1 < b1) \/ (a1 = b1 /\ a2 < b2)

ValueError == [kind |-> "ValueError"]
NoResult == [kind |-> "none"]

\* dt.datetime(year, month, day, hour, minute, second): raises ValueError
\* when the fields do not name a calendar date
NewDatetimeClamped(y, m, d, h, mi, s) ==
    IF y < 1 \/ y > 9999 \/ m < 1 \/ m > 12 \/ d < 1
    THEN ValueError
    ELSE [kind |-> "ok",
          value |-> Instant(y, m, IF d > DaysInMonth(y, m) THEN DaysInMonth(y, m) ELSE d,
                            h, mi, s)]

NewDatetimeNoLeapDay(y, m, d, h, mi, s) ==
    IF y < 1 \/ y > 9999 \/ m < 1 \/ m > 12 \/ d < 1
         \/ d > (IF m = 2 THEN 28 ELSE DaysInMonth(y, m))
    THEN ValueError
    ELSE [kind |-> "ok", value |-> Instant(y, m, d, h, mi, s)]

NewDatetime(y, m, d, h, mi, s) ==
    IF y < 1 \/ y > 9999 \/ m < 1 \/ m > 12 \/ d < 1 \/ d > DaysInMonth(y, m)
    THEN ValueError
    ELSE [kind |-> "ok", value |-> Instant(y, m, d, h, mi, s)]

TimeDeltaTruncated(a, b) ==
    LET total == SecondsBetween(a, b)
        d == IF total < 0 THEN -((-total) \div 86400) ELSE total \div 86400
    IN  [days |-> d, seconds |-> total - d * 86400]

\* a - b as a timedelta, normalised to 0 <= seconds < 86400 (days may be negative)
TimeDelta(a, b) ==
    LET total == SecondsBetween(a, b)
    IN  [days |-> total \div 86400, seconds |-> total % 86400]

----------------------------------------------------------------------------
(* age_logic.py *)

YearsNoDayCompare(now, dob_) ==
    IF now.month < dob_.month
    THEN now.year - dob_.year - 1
    ELSE now.year - dob_.year

YearsInclusive(now, dob_) ==
    IF ~TupleLess(dob_.month, dob_.day, now.month, now.day)
    THEN now.year - dob_.year - 1
    ELSE now.year - dob_.year

\* lines 4-6
AgeYears(now, dob_) ==
    IF TupleLess(now.month, now.day, dob_.month, dob_.day)
    THEN now.year - dob_.year - 1
    ELSE now.year - dob_.year

MonthsNoBorrow(now, dob_) ==
    now.month - dob_.month - (IF now.day < dob_.day THEN 1 ELSE 0)

MonthsNoDayBorrow(now, dob_) ==
    LET m0 == now.month - dob_.month
    IN  IF m0 < 0 THEN m0 + 12 ELSE m0

MonthsBorrowAtZero(now, dob_) ==
    LET m0 == now.month - dob_.month
        m1 == IF now.day < dob_.day THEN m0 - 1 ELSE m0
    IN  IF m1 <= 0 THEN m1 + 12 ELSE m1

\* lines 8-12
AgeMonths(now, dob_) ==
    LET m0 == now.month - dob_.month
        m1 == IF now.day < dob_.day THEN m0 - 1 ELSE m0
    IN  IF m1 < 0 THEN m1 + 12 ELSE m1

LastBirthdayNoCarry(now, dob_) ==
    LET y0 == dob_.year + AgeYears(now, dob_)
        m0 == dob_.month + AgeMonths(now, dob_)
        m1 == IF m0 > 12 THEN m0 - 12 ELSE m0
    IN  NewDatetime(y0, m1, dob_.day, dob_.hour, dob_.minute, dob_.second)

LastBirthdayYearMonthNoCarry(now, dob_) ==
    LET y0 == dob_.year + AgeYears(now, dob_)
        m0 == dob_.month + AgeMonths(now, dob_)
    IN  [year |-> y0, month |-> IF m0 > 12 THEN m0 - 12 ELSE m0]

LastBirthdayYearMonthCarryAt12(now, dob_) ==
    LET y0 == dob_.year + AgeYears(now, dob_)
        m0 == dob_.month + AgeMonths(now, dob_)
    IN  [year |-> IF m0 >= 12 THEN y0 + 1 ELSE y0,
         month |-> IF m0 >= 12 THEN m0 - 12 ELSE m0]

\* lines 14-19: last_birthday_year, last_birthday_month
LastBirthdayYearMonth(now, dob_) ==
    LET y0 == dob_.year + AgeYears(now, dob_)
        m0 == dob_.month + AgeMonths(now, dob_)
    IN  [year |-> IF m0 > 12 THEN y0 + 1 ELSE y0,
         month |-> IF m0 > 12 THEN m0 - 12 ELSE m0]

\* lines 14-28
LastBirthday(now, dob_) ==
    LET ym == LastBirthdayYearMonth(now, dob_)
    IN  NewDatetime(ym.year, ym.month, dob_.day, dob_.hour, dob_.minute, dob_.second)

calculate_detailed_age_MinutesNoMod(now, dob_) ==
    LET last_birthday == LastBirthday(now, dob_)
    IN  IF last_birthday.kind # "ok"
        THEN ValueError
        ELSE LET delta == TimeDelta(now, last_birthday.value)
                 seconds_left == delta.seconds
             IN  [kind |-> "ok",
                  years |-> AgeYears(now, dob_),
                  months |-> AgeMonths(now, dob_),
                  days |-> delta.days,
                  hours |-> seconds_left \div 3600,
                  minutes |-> seconds_left \div 60,
                  seconds |-> seconds_left % 60]

\* lines 3-41
calculate_detailed_age(now, dob_) ==
    LET last_birthday == LastBirthday(now, dob_)
    IN  IF last_birthday.kind # "ok"
        THEN ValueError
        ELSE LET delta == TimeDelta(now, last_birthday.value)
                 seconds_left == delta.seconds
             IN  [kind |-> "ok",
                  years |-> AgeYears(now, dob_),
                  months |-> AgeMonths(now, dob_),
                  days |-> delta.days,
                  hours |-> seconds_left \div 3600,
                  minutes |-> (seconds_left % 3600) \div 60,
                  seconds |-> seconds_left % 60]

----------------------------------------------------------------------------
(* The clock the caller samples: one second later *)

AddSecond(t) ==
    IF t.second < 59 THEN [t EXCEPT !.second = t.second + 1]
    ELSE IF t.minute < 59 THEN [t EXCEPT !.second = 0, !.minute = t.minute + 1]
    ELSE IF t.hour < 23 THEN [t EXCEPT !.second = 0, !.minute = 0, !.hour = t.hour + 1]
    ELSE IF t.day < DaysInMonth(t.year, t.month)
         THEN Instant(t.year, t.month, t.day + 1, 0, 0, 0)
    ELSE IF t.month < 12 THEN Instant(t.year, t.month + 1, 1, 0, 0, 0)
    ELSE Instant(t.year + 1, 1, 1, 0, 0, 0)

\* the AgeCounterUI session starts one second before midnight at the end of February
UIStart == Instant(2000, 2, 29, 23, 59, 59)

InstantsOf(ys, tods) ==
    { Instant(y, m, d, tod[1], tod[2], tod[3]) :
        y \in ys, m \in Months, d \in Days, tod \in tods }

ValidInstant(t) == t.day <= DaysInMonth(t.year, t.month)

OriginInstants == { t \in InstantsOf(OriginYears, OriginTimes) : ValidInstant(t) }
ReferenceInstants == { t \in InstantsOf(Years, ReferenceTimes) : ValidInstant(t) }

----------------------------------------------------------------------------
(* validators.py, storage.py, ui.py *)

None == [kind |-> "None"]

\* what the user can have typed into the entry: a YYYY-MM-DD HH:MM:SS text
\* (pad = 1 when surrounded by blanks) or something of another shape
EntryText(t, pad) == [kind |-> "text", value |-> t, pad |-> pad]
Garbage == [kind |-> "garbage"]

InvalidFormat == "Invalid format. Use: YYYY-MM-DD HH:MM:SS"
FutureDob == "DOB cannot be in the future"
DayOutOfRange == "day is out of range for month"
NoSavedDobs == [kind |-> "No saved DOBs"]

\* validators.py 3-12: strptime on the stripped text; texts of another shape
\* and texts naming no calendar date raise ValueError
parse_dob(input_text) ==
    IF input_text.kind # "text" THEN ValueError
    ELSE LET t == input_text.value
         IN  NewDatetime(t.year, t.month, t.day, t.hour, t.minute, t.second)

InSeq(x, q) == \E i \in 1..Len(q) : q[i] = x

save_dob_always(file, dob_string) == Append(file, dob_string)

\* storage.py 13-26: append dob_string unless the column already holds it
save_dob(file, dob_string) ==
    IF InSeq(dob_string, file) THEN file ELSE Append(file, dob_string)

\* storage.py 6-11
load_dobs(file) == file

\* ui.py 134-147: the dropdown variable shows the newest saved dob
refresh_dropdown(file, current) ==
    IF Len(load_dobs(file)) > 0 THEN load_dobs(file)[Len(load_dobs(file))] ELSE current

\* ui.py 9-64: no dob, nothing scheduled, the dropdown on the first saved dob
UIInitWith(file) ==
    /\ dob = None
    /\ last_second = None
    /\ pending = <<>>
    /\ flashes = 0
    /\ labelText = None
    /\ labelFg = "black"
    /\ errorText = ""
    /\ history = file
    /\ dropdown_var = IF Len(load_dobs(file)) > 0 THEN load_dobs(file)[1] ELSE NoSavedDobs
    /\ lastCall = None
    /\ presses = 0

----------------------------------------------------------------------------
(* Call frames of calculate_detailed_age, one per call in progress *)

Threads == 1..NumThreads

\* locals of a call before line 4 has run
EmptyFrame ==
    [years |-> 0, months |-> 0, last_birthday_year |-> 0, last_birthday_month |-> 0,
     last_birthday |-> None, days |-> 0, seconds_left |-> 0]

\* every call the interpreter makes gets a frame of its own
FrameOfShared(t) == 1

FrameOf(t) == t

NoThreads ==
    /\ targs = [t \in Threads |-> None]
    /\ tpc = [t \in Threads |-> "done"]
    /\ frames = [t \in Threads |-> EmptyFrame]
    /\ tret = [t \in Threads |-> NoResult]
    /\ overlapped = FALSE

----------------------------------------------------------------------------
(* The pomodoro timer: timer_logic.py and ui.py *)

\* state.py as timer_logic.py reads it before any button was pressed
StateModule == [reps |-> 0, timer |-> None]

AfterId(n) == [kind |-> "after", id |-> n]

\* timer_logic.py 38-41: the count as the canvas shows it, minutes and seconds
TimeText(count) == << count \div 60, count % 60 >>

\* timer_logic.py 57-61: one check mark per two reps, a comma after every fourth
RECURSIVE Marks(_)
Marks(n) ==
    IF n = 0 THEN << >>
    ELSE IF n % 4 = 0 THEN Marks(n - 1) \o << "check", "," >>
    ELSE Append(Marks(n - 1), "check")

\* what the window holds; p is a record with one field per pomodoro variable
Pomodoro ==
    [reps |-> reps, timer |-> timer, callbacks |-> callbacks, nextId |-> nextId,
     timer_text |-> timer_text, title_label |-> title_label,
     check_marks |-> check_marks]

RECURSIVE start_timer(_), countdown(_, _)

\* start_timer that tests for an even rep before it tests for the eighth
start_timer_even_first(p) ==
    LET q == [p EXCEPT !.reps = @ + 1]
    IN  IF q.reps % 2 = 0
        THEN countdown([q EXCEPT !.title_label = "Short Break"], ShortBreakSeconds)
        ELSE IF q.reps % 8 = 0
        THEN countdown([q EXCEPT !.title_label = "Long Break"], LongBreakSeconds)
        ELSE countdown([q EXCEPT !.title_label = "Work"], WorkSeconds)

\* timer_logic.py 19-34
start_timer(p) ==
    LET q == [p EXCEPT !.reps = @ + 1]
    IN  IF q.reps % 8 = 0
        THEN countdown([q EXCEPT !.title_label = "Long Break"], LongBreakSeconds)
        ELSE IF q.reps % 2 = 0
        THEN countdown([q EXCEPT !.title_label = "Short Break"], ShortBreakSeconds)
        ELSE countdown([q EXCEPT !.title_label = "Work"], WorkSeconds)

\* timer_logic.py 37-67
countdown(p, count) ==
    LET shown == [p EXCEPT !.timer_text = TimeText(count)]
    IN  IF count > 0
        THEN [shown EXCEPT
                !.timer = AfterId(p.nextId),
                !.callbacks = Append(@, [id |-> p.nextId, count |-> count - 1]),
                !.nextId = @ + 1]
        ELSE LET q == start_timer(shown)
             IN  [q EXCEPT !.check_marks = Marks(q.reps \div 2)]

\* window.after_cancel(id): the callback with that id, if still queued, is dropped
after_cancel(q, id) == SelectSeq(q, LAMBDA c : AfterId(c.id) # id)

\* timer_logic.py 5-16
reset_timer(p) ==
    [p EXCEPT
        !.callbacks = IF p.timer # None THEN after_cancel(@, p.timer) ELSE @,
        !.reps = 0,
        !.timer_text = << 0, 0 >>,
        !.title_label = "Timer",
        !.check_marks = << >>]

\* the window takes the values of p
Shows(p) ==
    /\ reps' = p.reps
    /\ timer' = p.timer
    /\ callbacks' = p.callbacks
    /\ nextId' = p.nextId
    /\ timer_text' = p.timer_text
    /\ title_label' = p.title_label
    /\ check_marks' = p.check_marks

\* ui.py build_ui: the window as it opens
PomodoroBuilt ==
    /\ reps = StateModule.reps
    /\ timer = StateModule.timer
    /\ callbacks = << >>
    /\ nextId = 1
    /\ timer_text = << 0, 0 >>
    /\ title_label = "Timer"
    /\ check_marks = << >>
    /\ startPresses = 0
    /\ resetPresses = 0
    /\ sinceReset = FALSE

----------------------------------------------------------------------------
(* The flasky application: app.py *)

\* an empty session: no is_authenticated key, no secret_number key (0)
EmptySession == [is_authenticated |-> FALSE, secret_number |-> 0]

\* nothing served yet.  ran: the body of the view function was executed
NoRequest ==
    [route |-> "none", method |-> "none", username |-> "absent",
     password |-> "absent", ran |-> FALSE, response |-> "none"]

\* app.py 120: a request passes the wrapper when the flag is set
require_auth_open(sess) == TRUE

require_auth(sess) == sess.is_authenticated

\* app.py 190: random.randint(1, 10)
SecretNumbers == 1..10

\* form fields a browser may send; "absent" is a field left out of the form
Usernames == { "admin", "guest", "absent" }
Passwords == { "1234", "0000", "absent" }
Guesses ==
    { [kind |-> "digits", value |-> n] : n \in 0..11 } \cup { [kind |-> "text"], None }

\* app.py 252-270: the message for a posted guess; int() raises on text and on
\* a missing field, and so does comparing with a missing secret_number
guess_message(g, sess) ==
    IF g.kind # "digits" THEN "Invalid input."
    ELSE IF sess.secret_number = 0
    THEN "Invalid input."
    ELSE IF g.value = sess.secret_number THEN "Correct! You guessed the number."
    ELSE IF g.value > sess.secret_number THEN "Too high!"
    ELSE "Too low!"

NoRequests ==
    /\ session = EmptySession
    /\ lastRequest = NoRequest
    /\ prevRoute = "none"

----------------------------------------------------------------------------
(* Spec: the calculator on bounded inputs *)

\* the worked examples: <<origin, reference>>
Scenario1 == << Instant(2000, 3, 15, 10, 0, 0), Instant(2024, 3, 15, 10, 0, 0) >>
Scenario2 == << Instant(2000, 3, 15, 10, 0, 0), Instant(2024, 3, 14, 10, 0, 0) >>
Scenario3 == << Instant(1999, 2, 28, 0, 0, 0), Instant(2000, 3, 1, 0, 0, 0) >>
Scenarios == { Scenario1, Scenario2, Scenario3 }

Init ==
    /\ \/ origin \in OriginInstants /\ reference \in ReferenceInstants
       \/ \E p \in Scenarios : origin = p[1] /\ reference = p[2]
    /\ result = NoResult
    /\ prevResult = NoResult
    /\ prevReference = reference
    /\ pc = "init"
    /\ ticks = 0
    /\ clock = UIStart
    /\ UIInitWith(<<>>)
    /\ NoThreads
    /\ PomodoroBuilt
    /\ NoRequests

\* the caller computes the breakdown for (reference, origin)
Call ==
    /\ pc = "init"
    /\ result' = calculate_detailed_age(reference, origin)
    /\ pc' = "called"
    /\ UNCHANGED <<origin, reference, prevResult, prevReference, ticks>>
    /\ UNCHANGED uiVars
    /\ UNCHANGED thrVars
    /\ UNCHANGED pomVars
    /\ UNCHANGED webVars

\* one second later the caller computes it again for the same origin
Advance ==
    /\ pc = "called"
    /\ ticks < MaxTicks
    /\ reference' = AddSecond(reference)
    /\ prevResult' = result
    /\ prevReference' = reference
    /\ result' = calculate_detailed_age(reference', origin)
    /\ ticks' = ticks + 1
    /\ UNCHANGED <<origin, pc>>
    /\ UNCHANGED uiVars
    /\ UNCHANGED thrVars
    /\ UNCHANGED pomVars
    /\ UNCHANGED webVars

Next == Call \/ Advance

Spec == Init /\ [][Next]_vars

----------------------------------------------------------------------------
(* Properties of the calculator *)

Called == pc = "called"
Returned == result.kind = "ok"
Raised == result.kind = "ValueError"
\* origin <= reference
Ordered == ~Later(origin, reference)
Advanced == ticks > 0 /\ prevResult.kind = "ok" /\ result.kind = "ok"
                      /\ ~Later(origin, prevReference)

\* the fixed-duration part of a breakdown, in seconds
Remainder(r) == r.days * 86400 + r.hours * 3600 + r.minutes * 60 + r.seconds

\* calendar addition of n months to t, day-of-month and time-of-day kept
PlusMonths(t, n) ==
    LET total == t.year * 12 + (t.month - 1) + n
    IN  [t EXCEPT !.year = total \div 12, !.month = (total % 12) + 1]

Anniversary(t, r) == PlusMonths(t, 12 * r.years + r.months)

\* a <= b field by field, meaningful also when a names a day its month lacks
NotAfter(a, b) ==
    \/ a.year < b.year
    \/ a.year = b.year /\ a.month < b.month
    \/ a.year = b.year /\ a.month = b.month /\ a.day < b.day
    \/ a.year = b.year /\ a.month = b.month /\ a.day = b.day
         /\ SecondOfDay(a) <= SecondOfDay(b)

\* the month the anniversary falls in: reference's own month once origin's
\* day-of-month is reached, the month before it otherwise
AnniversaryMonthOf(ref, org) ==
    IF ref.day >= org.day THEN [year |-> ref.year, month |-> ref.month]
    ELSE IF ref.month = 1 THEN [year |-> ref.year - 1, month |-> 12]
    ELSE [year |-> ref.year, month |-> ref.month - 1]

AllZero ==
    [kind |-> "ok", years |-> 0, months |-> 0, days |-> 0,
     hours |-> 0, minutes |-> 0, seconds |-> 0]

\* C1: whenever the call returns for origin <= reference, origin plus the
\* returned years and months (calendar addition) plus the returned
\* days/hours/minutes/seconds (fixed duration) is exactly reference.
Reconstruction ==
    (Called /\ Ordered /\ Returned) =>
        LET a == Anniversary(origin, result)
        IN  /\ ValidInstant(a)
            /\ SecondsBetween(reference, a) = Remainder(result)

\* a call that crossed a year end: years, months and the remainder all non-zero
ReconstructionWitness ==
    /\ Called /\ Ordered /\ Returned
    /\ result.years > 0 /\ result.months > 0 /\ Remainder(result) > 0
    /\ origin.month + result.months > 12

\* C2: whenever the call returns for origin <= reference, days >= 0.
DaysNonNegative ==
    (Called /\ Ordered /\ Returned) => result.days >= 0

\* C3: whenever the call returns for origin <= reference, years >= 0 and
\* months is in 0..11.
YearsMonthsInRange ==
    (Called /\ Ordered /\ Returned) =>
        result.years >= 0 /\ result.months >= 0 /\ result.months <= 11

\* both borrows applied: reference is earlier in the year and in the month
YearsMonthsInRangeWitness ==
    /\ Called /\ Ordered /\ Returned
    /\ reference.month < origin.month /\ reference.day < origin.day
    /\ reference.year = origin.year + 1
    /\ result.years = 0 /\ result.months > 0

\* C4: the anniversary for the returned (years, months) is not after
\* reference, and the anniversary one month further on is after reference.
GreatestDecomposition ==
    (Called /\ Ordered /\ Returned) =>
        /\ NotAfter(Anniversary(origin, result), reference)
        /\ ~NotAfter(PlusMonths(Anniversary(origin, result), 1), reference)

\* C5: a call with origin > reference ends in an error, never in a breakdown.
RejectsLaterOrigin ==
    (Called /\ Later(origin, reference)) => Raised

\* C7: when origin's day-of-month does not exist in the anniversary month,
\* the call raises; a returned breakdown is never built from another day.
ImpossibleDateRaises ==
    Called =>
        LET ym == AnniversaryMonthOf(reference, origin)
        IN  (origin.day > DaysInMonth(ym.year, ym.month)) => Raised

\* origin on the 31st, reference in the month after a 30-day month
ImpossibleDateRaisesWitness ==
    /\ Called /\ Ordered /\ Raised
    /\ origin.day = 31 /\ reference.day < 31
    /\ DaysInMonth(AnniversaryMonthOf(reference, origin).year,
                   AnniversaryMonthOf(reference, origin).month) = 30

\* C8: calculate_detailed_age(t, t) returns the all-zero breakdown.
ZeroAtOrigin ==
    (Called /\ reference = origin) => result = AllZero

\* t on the last day of a 31-day month
ZeroAtOriginWitness ==
    Called /\ reference = origin /\ origin.day = 31 /\ result = AllZero

\* C9: one second later neither years nor months is smaller.
YearsMonthsNeverDecrease ==
    Advanced =>
        result.years >= prevResult.years /\ result.months >= prevResult.months

\* C9 as amended: years never decreases, and months decreases only by
\* wrapping from 11 to 0 in the step that adds one to years.
YearsNeverDecreaseMonthsWrap ==
    Advanced =>
        /\ result.years >= prevResult.years
        /\ \/ result.months >= prevResult.months
           \/ /\ result.years = prevResult.years + 1
              /\ prevResult.months = 11 /\ result.months = 0

\* the second in which a full year completes
YearsNeverDecreaseMonthsWrapWitness ==
    /\ Advanced
    /\ result.years = prevResult.years + 1
    /\ prevResult.months = 11 /\ result.months = 0

\* C10: years or months change in a one-second step only if the new
\* reference is exactly an anniversary instant; otherwise they are unchanged
\* and the remainder grows by exactly one second.
CarryOnlyAtAnniversary ==
    Advanced =>
        \/ /\ reference.day = origin.day
           /\ SecondOfDay(reference) = SecondOfDay(origin)
           /\ Later(reference, origin)
        \/ /\ result.years = prevResult.years
           /\ result.months = prevResult.months
           /\ Remainder(result) = Remainder(prevResult) + 1

----------------------------------------------------------------------------
(* SpecUI: the AgeCounterUI application *)

\* dates of birth the user may type
UIDates ==
    { Instant(1999, 1, 31, 0, 0, 0),      \* valid; no 31st in the month before March
      Instant(1999, 3, 1, 0, 0, 0),       \* past
      Instant(2000, 3, 1, 0, 0, 0),       \* one second after the session starts
      Instant(2001, 1, 1, 0, 0, 0),       \* well after the session
      Instant(1999, 2, 30, 0, 0, 0) }     \* right shape, no such date

UITexts ==
    { EntryText(t, pad) : t \in UIDates, pad \in {0, 1} } \cup { Garbage }

SomeInt(n) == [kind |-> "int", value |-> n]

InitUI ==
    /\ clock = UIStart
    /\ \E file \in { <<>>, << EntryText(Instant(1999, 3, 1, 0, 0, 0), 0) >> } :
          UIInitWith(file)
    /\ origin = UIStart
    /\ reference = UIStart
    /\ result = NoResult
    /\ prevResult = NoResult
    /\ prevReference = UIStart
    /\ pc = "init"
    /\ ticks = 0
    /\ NoThreads
    /\ PomodoroBuilt
    /\ NoRequests

\* ui.py 105-129 once self.dob is d and the clock reads now_: the new values of
\* the display and of the callback queue q.  raised is TRUE when
\* calculate_detailed_age raised, in which case nothing after line 110 ran.
update_ui(d, now_, q) ==
    LET age == calculate_detailed_age(now_, d)
        flash == last_second # SomeInt(age.seconds)
    IN  IF age.kind # "ok"
        THEN [raised |-> TRUE, label |-> labelText, fg |-> labelFg,
              flashes |-> flashes, last_second |-> last_second, pending |-> q]
        ELSE [raised |-> FALSE, label |-> age,
              fg |-> IF flash THEN "red" ELSE labelFg,
              flashes |-> IF flash THEN flashes + 1 ELSE flashes,
              last_second |-> SomeInt(age.seconds),
              pending |-> Append(q, AddSecond(now_))]

\* ui.py 78-93: Start Count pressed with dob_text in the entry
start_counter(dob_text) ==
    /\ presses < MaxPresses
    /\ presses' = presses + 1
    /\ LET parsed == parse_dob(dob_text)
       IN  IF parsed.kind # "ok"
           THEN /\ errorText' = InvalidFormat
                /\ UNCHANGED <<dob, last_second, pending, flashes, labelText, labelFg,
                               history, dropdown_var, lastCall>>
           ELSE /\ dob' = parsed.value
                /\ IF Later(parsed.value, clock)
                   THEN /\ errorText' = FutureDob
                        /\ UNCHANGED <<last_second, pending, flashes, labelText, labelFg,
                                       history, dropdown_var, lastCall>>
                   ELSE LET u == update_ui(parsed.value, clock, pending)
                        IN  /\ history' = save_dob(history, dob_text)
                            /\ dropdown_var' = refresh_dropdown(history', dropdown_var)
                            /\ lastCall' = [kind |-> "call", now |-> clock, dob |-> parsed.value]
                            /\ errorText' = IF u.raised THEN DayOutOfRange ELSE ""
                            /\ labelText' = u.label
                            /\ labelFg' = u.fg
                            /\ flashes' = u.flashes
                            /\ last_second' = u.last_second
                            /\ pending' = u.pending
    /\ UNCHANGED clock
    /\ UNCHANGED calcVars
    /\ UNCHANGED thrVars
    /\ UNCHANGED pomVars
    /\ UNCHANGED webVars

StartCount == \E dob_text \in UITexts : start_counter(dob_text)

\* the event loop runs the update_ui callback that is due first (ui.py 129, 105-129);
\* an exception in it is reported by Tk and the callback is not queued again
RefreshTick ==
    /\ Len(pending) > 0
    /\ ~Later(Head(pending), clock)
    /\ IF dob = None
       THEN /\ pending' = Tail(pending)
            /\ UNCHANGED <<last_second, flashes, labelText, labelFg, lastCall>>
       ELSE LET u == update_ui(dob, clock, Tail(pending))
            IN  /\ lastCall' = [kind |-> "call", now |-> clock, dob |-> dob]
                /\ labelText' = u.label
                /\ labelFg' = u.fg
                /\ flashes' = u.flashes
                /\ last_second' = u.last_second
                /\ pending' = u.pending
    /\ UNCHANGED <<clock, dob, errorText, history, dropdown_var, presses>>
    /\ UNCHANGED calcVars
    /\ UNCHANGED thrVars
    /\ UNCHANGED pomVars
    /\ UNCHANGED webVars

\* ui.py 98-100: 150 ms after a flash the label turns black again
FlashEnd ==
    /\ flashes > 0
    /\ flashes' = flashes - 1
    /\ labelFg' = "black"
    /\ UNCHANGED <<clock, dob, last_second, pending, labelText, errorText, history,
                   dropdown_var, lastCall, presses>>
    /\ UNCHANGED calcVars
    /\ UNCHANGED thrVars
    /\ UNCHANGED pomVars
    /\ UNCHANGED webVars

\* a second passes
ClockSecond ==
    /\ SecondsBetween(clock, UIStart) < MaxClockSeconds
    /\ clock' = AddSecond(clock)
    /\ UNCHANGED <<dob, last_second, pending, flashes, labelText, labelFg, errorText,
                   history, dropdown_var, lastCall, presses>>
    /\ UNCHANGED calcVars
    /\ UNCHANGED thrVars
    /\ UNCHANGED pomVars
    /\ UNCHANGED webVars

NextUI == StartCount \/ RefreshTick \/ FlashEnd \/ ClockSecond

SpecUI == InitUI /\ [][NextUI]_vars

\* C6: every call update_ui makes to calculate_detailed_age(now, self.dob)
\* has self.dob <= now.
CallerRejectsFutureOrigin ==
    lastCall.kind = "call" => ~Later(lastCall.dob, lastCall.now)

----------------------------------------------------------------------------
(* The worked examples and the steps of the calculator *)

\* the first call on a worked example
AtScenario(p) == Called /\ ticks = 0 /\ origin = p[1] /\ reference = p[2]

\* C11: origin 2000-03-15 10:00:00, reference 2024-03-14 10:00:00 gives
\* years 23, months 11 and days 365.
Scenario2Days365 ==
    AtScenario(Scenario2) =>
        Returned /\ result.years = 23 /\ result.months = 11 /\ result.days = 365

\* C11 as amended: years 23, months 11 and days 28, the days from the last
\* monthly anniversary 2024-02-15 to 2024-03-14; no hours, minutes, seconds.
Scenario2Days28 ==
    AtScenario(Scenario2) =>
        /\ Returned /\ result.years = 23 /\ result.months = 11 /\ result.days = 28
        /\ result.hours = 0 /\ result.minutes = 0 /\ result.seconds = 0
        /\ result.days = OrdinalOf(Instant(2024, 3, 14, 10, 0, 0))
                            - OrdinalOf(Instant(2024, 2, 15, 10, 0, 0))

Scenario2Witness == AtScenario(Scenario2) /\ Returned /\ result.months = 11

\* C12: origin 1999-02-28 00:00:00, reference 2000-03-01 00:00:00 gives
\* years 1, months 0, days 2 (2000-02-29 counted), no hours, minutes, seconds.
Scenario3LeapDay ==
    AtScenario(Scenario3) =>
        result = [kind |-> "ok", years |-> 1, months |-> 0, days |-> 2,
                  hours |-> 0, minutes |-> 0, seconds |-> 0]

Scenario3Witness == AtScenario(Scenario3) /\ Returned /\ result.days = 2

\* C13: origin 2000-03-15 10:00:00, reference 2024-03-15 10:00:00 gives
\* years 24 and zero in every other field.
Scenario1Years24 ==
    AtScenario(Scenario1) =>
        result = [kind |-> "ok", years |-> 24, months |-> 0, days |-> 0,
                  hours |-> 0, minutes |-> 0, seconds |-> 0]

Scenario1Witness == AtScenario(Scenario1) /\ Returned /\ result.years = 24

\* C14: whenever the call returns for origin <= reference, hours is in 0..23
\* and minutes and seconds are in 0..59, also for a negative remainder.
SubDayFieldsInRange ==
    (Called /\ Ordered /\ Returned) =>
        /\ result.hours >= 0 /\ result.hours <= 23
        /\ result.minutes >= 0 /\ result.minutes <= 59
        /\ result.seconds >= 0 /\ result.seconds <= 59

\* reference one second before origin's time-of-day on origin's day-of-month
SubDayFieldsInRangeWitness ==
    /\ Called /\ Ordered /\ Returned
    /\ Remainder(result) < 0
    /\ result.hours = 23 /\ result.minutes = 59 /\ result.seconds = 59

\* (y1, m1, d1) <= (y2, m2, d2) in lexicographic order
DateNotAfter(y1, m1, d1, y2, m2, d2) ==
    \/ y1 < y2
    \/ y1 = y2 /\ m1 < m2
    \/ y1 = y2 /\ m1 = m2 /\ d1 <= d2

\* C16: for origin <= reference the returned years is the largest y with
\* (origin.year + y, origin.month, origin.day) <= (reference.year,
\* reference.month, reference.day); no time-of-day enters.
YearsIsGreatest ==
    (Called /\ Ordered /\ Returned) =>
        /\ DateNotAfter(origin.year + result.years, origin.month, origin.day,
                        reference.year, reference.month, reference.day)
        /\ ~DateNotAfter(origin.year + result.years + 1, origin.month, origin.day,
                         reference.year, reference.month, reference.day)

\* same month, earlier day-of-month, later time-of-day, two calendar years on
YearsIsGreatestWitness ==
    /\ Called /\ Ordered /\ Returned
    /\ reference.year = origin.year + 2
    /\ reference.month = origin.month /\ reference.day < origin.day
    /\ SecondOfDay(reference) > SecondOfDay(origin)
    /\ result.years = 1

\* C17: for all pairs of instants 12*years + months is the calendar-month
\* difference less one when reference.day < origin.day, with months in 0..11:
\* the +12 of step 2 goes with the -1 of step 1.
BorrowsAgree ==
    Called =>
        LET y == AgeYears(reference, origin)
            m == AgeMonths(reference, origin)
        IN  /\ 12 * y + m = 12 * (reference.year - origin.year)
                              + (reference.month - origin.month)
                              - (IF reference.day < origin.day THEN 1 ELSE 0)
            /\ m >= 0 /\ m <= 11
            /\ Returned => result.years = y /\ result.months = m

\* the day borrow alone makes months negative
BorrowsAgreeWitness ==
    /\ Called /\ Returned
    /\ reference.month = origin.month /\ reference.day < origin.day
    /\ result.months = 11
    /\ result.years = reference.year - origin.year - 1

\* C18: with remainder = reference - last_anniversary in seconds, days, hours,
\* minutes and seconds are its floor quotient by 86400 and the non-negative
\* residues, and recompose to remainder.
RemainderDecomposition ==
    (Called /\ Returned) =>
        LET remainder == SecondsBetween(reference, Anniversary(origin, result))
        IN  /\ result.days = remainder \div 86400
            /\ result.hours = (remainder % 86400) \div 3600
            /\ result.minutes = (remainder % 3600) \div 60
            /\ result.seconds = remainder % 60
            /\ Remainder(result) = remainder

\* a remainder of minus one second
RemainderDecompositionWitness ==
    /\ Called /\ Returned
    /\ SecondsBetween(reference, Anniversary(origin, result)) = -1
    /\ result.days = -1 /\ result.minutes = 59

\* C19: for origin <= reference the (year, month) used to build last_birthday
\* has month in 1..12 and is reference's month when reference.day >=
\* origin.day, the month before it otherwise.
AnniversaryPlacement ==
    (Called /\ Ordered) =>
        LET ym == LastBirthdayYearMonth(reference, origin)
        IN  /\ ym.month >= 1 /\ ym.month <= 12
            /\ ym = AnniversaryMonthOf(reference, origin)

\* reference in January before origin's day-of-month: December of the year before
AnniversaryPlacementWitness ==
    /\ Called /\ Ordered
    /\ reference.month = 1 /\ reference.day < origin.day
    /\ LastBirthdayYearMonth(reference, origin)
         = [year |-> reference.year - 1, month |-> 12]

\* C20: for origin <= reference the call raises exactly when origin.day
\* exceeds the length of the anniversary month; never for origin.day <= 28;
\* and only when reference.day < origin.day or reference's month is shorter
\* than origin.day.
RaisesOnlyAtMonthEnd ==
    (Called /\ Ordered) =>
        LET ym == AnniversaryMonthOf(reference, origin)
        IN  /\ Raised <=> origin.day > DaysInMonth(ym.year, ym.month)
            /\ Returned <=> ~Raised
            /\ origin.day <= 28 => Returned
            /\ Raised => \/ reference.day < origin.day
                         \/ DaysInMonth(reference.year, reference.month) < origin.day

\* born on a 29th, reference in March of a common year
RaisesOnlyAtMonthEndWitness ==
    /\ Called /\ Ordered /\ Raised
    /\ origin.day = 29 /\ reference.month = 3 /\ reference.day < 29
    /\ ~IsLeap(reference.year)

----------------------------------------------------------------------------
(* SpecThreads: calls of calculate_detailed_age running in several threads,
   interleaved line by line *)

\* the (origin, reference) pairs the threads call with
ThreadInputs ==
    Scenarios \cup
    { << Instant(1999, 1, 1, 10, 0, 0), Instant(1999, 2, 1, 0, 0, 0) >>,
      << Instant(1999, 1, 31, 0, 0, 0), Instant(2000, 3, 1, 0, 0, 0) >> }

InitThreads ==
    /\ targs \in [Threads -> { [now |-> p[2], dob |-> p[1]] : p \in ThreadInputs }]
    /\ tpc = [t \in Threads |-> "L4"]
    /\ frames = [t \in Threads |-> EmptyFrame]
    /\ tret = [t \in Threads |-> NoResult]
    /\ overlapped = FALSE
    /\ clock = UIStart
    /\ UIInitWith(<<>>)
    /\ origin = UIStart
    /\ reference = UIStart
    /\ result = NoResult
    /\ prevResult = NoResult
    /\ prevReference = UIStart
    /\ pc = "init"
    /\ ticks = 0
    /\ PomodoroBuilt
    /\ NoRequests

InsideCall(t) == tpc[t] \notin {"L4", "done"}

\* thread t runs one line; what every line leaves alone
Runs(t) ==
    /\ overlapped' = (overlapped \/ \E u \in Threads \ {t} : InsideCall(u))
    /\ UNCHANGED targs
    /\ UNCHANGED calcVars
    /\ UNCHANGED uiVars
    /\ UNCHANGED pomVars
    /\ UNCHANGED webVars

\* lines 4-6
Line4(t) ==
    /\ tpc[t] = "L4"
    /\ frames' = [frames EXCEPT ![FrameOf(t)].years = AgeYears(targs[t].now, targs[t].dob)]
    /\ tpc' = [tpc EXCEPT ![t] = "L8"]
    /\ UNCHANGED tret
    /\ Runs(t)

\* lines 8-12
Line8(t) ==
    /\ tpc[t] = "L8"
    /\ frames' = [frames EXCEPT ![FrameOf(t)].months = AgeMonths(targs[t].now, targs[t].dob)]
    /\ tpc' = [tpc EXCEPT ![t] = "L14"]
    /\ UNCHANGED tret
    /\ Runs(t)

\* lines 14-19
Line14(t) ==
    /\ tpc[t] = "L14"
    /\ LET f == frames[FrameOf(t)]
           y0 == targs[t].dob.year + f.years
           m0 == targs[t].dob.month + f.months
       IN  frames' = [frames EXCEPT
                        ![FrameOf(t)].last_birthday_year = IF m0 > 12 THEN y0 + 1 ELSE y0,
                        ![FrameOf(t)].last_birthday_month = IF m0 > 12 THEN m0 - 12 ELSE m0]
    /\ tpc' = [tpc EXCEPT ![t] = "L21"]
    /\ UNCHANGED tret
    /\ Runs(t)

\* lines 21-28: the constructor may raise, which ends the call
Line21(t) ==
    /\ tpc[t] = "L21"
    /\ LET f == frames[FrameOf(t)]
           d == targs[t].dob
           made == NewDatetime(f.last_birthday_year, f.last_birthday_month,
                               d.day, d.hour, d.minute, d.second)
       IN  IF made.kind # "ok"
           THEN /\ tret' = [tret EXCEPT ![t] = ValueError]
                /\ tpc' = [tpc EXCEPT ![t] = "done"]
                /\ UNCHANGED frames
           ELSE /\ frames' = [frames EXCEPT ![FrameOf(t)].last_birthday = made]
                /\ tpc' = [tpc EXCEPT ![t] = "L30"]
                /\ UNCHANGED tret
    /\ Runs(t)

\* lines 30-32
Line30(t) ==
    /\ tpc[t] = "L30"
    /\ LET delta == TimeDelta(targs[t].now, frames[FrameOf(t)].last_birthday.value)
       IN  frames' = [frames EXCEPT ![FrameOf(t)].days = delta.days,
                                    ![FrameOf(t)].seconds_left = delta.seconds]
    /\ tpc' = [tpc EXCEPT ![t] = "L34"]
    /\ UNCHANGED tret
    /\ Runs(t)

\* lines 34-41
Line34(t) ==
    /\ tpc[t] = "L34"
    /\ LET f == frames[FrameOf(t)]
       IN  tret' = [tret EXCEPT ![t] =
                      [kind |-> "ok",
                       years |-> f.years,
                       months |-> f.months,
                       days |-> f.days,
                       hours |-> f.seconds_left \div 3600,
                       minutes |-> (f.seconds_left % 3600) \div 60,
                       seconds |-> f.seconds_left % 60]]
    /\ tpc' = [tpc EXCEPT ![t] = "done"]
    /\ UNCHANGED frames
    /\ Runs(t)

NextThreads ==
    \E t \in Threads :
        Line4(t) \/ Line8(t) \/ Line14(t) \/ Line21(t) \/ Line30(t) \/ Line34(t)

SpecThreads == InitThreads /\ [][NextThreads]_vars

\* C15: under any interleaving every finished call has returned (or raised)
\* what the same call returns when run alone, and calls with equal arguments
\* have equal results.
CallsIndependent ==
    \A t \in Threads :
        tpc[t] = "done" =>
            /\ tret[t] = calculate_detailed_age(targs[t].now, targs[t].dob)
            /\ \A u \in Threads :
                  (tpc[u] = "done" /\ targs[u] = targs[t]) => tret[u] = tret[t]

\* two calls with different arguments that overlapped and both returned
CallsIndependentWitness ==
    /\ overlapped
    /\ tpc[1] = "done" /\ tpc[2] = "done"
    /\ targs[1] # targs[2]
    /\ tret[1].kind = "ok" /\ tret[2].kind = "ok"
    /\ tret[1] # tret[2]

----------------------------------------------------------------------------
(* Further properties of the age counter *)

\* C21: whenever the call returns for origin <= reference, days is in -1..30.
DaysBounded ==
    (Called /\ Ordered /\ Returned) => result.days >= -1 /\ result.days <= 30

\* the day before the monthly anniversary, after a 31-day month, late at night
DaysBoundedWitness ==
    /\ Called /\ Ordered /\ Returned
    /\ result.days = 30 /\ result.hours = 23
    /\ reference.day = origin.day - 1

\* C22: a Start Count that ends in the format error or the future-date error
\* leaves self.dob, the DOB history and the queued refresh callbacks as they were.
RejectedStartKeepsState ==
    [][ (presses' = presses + 1 /\ errorText' \in {InvalidFormat, FutureDob})
            => (dob' = dob /\ history' = history /\ pending' = pending) ]_vars

\* C23: at most one update_ui callback is pending at any time.
SingleRefreshChain == Len(pending) <= 1

NoDuplicates(q) == \A i, j \in 1..Len(q) : q[i] = q[j] => i = j

----------------------------------------------------------------------------
(* SpecPomodoro: the pomodoro window under Start, Reset and the Tk timer *)

AgeCounterIdle ==
    /\ clock = UIStart
    /\ UIInitWith(<<>>)
    /\ origin = UIStart
    /\ reference = UIStart
    /\ result = NoResult
    /\ prevResult = NoResult
    /\ prevReference = UIStart
    /\ pc = "init"
    /\ ticks = 0
    /\ NoThreads

InitPomodoro == PomodoroBuilt /\ AgeCounterIdle /\ NoRequests

PomodoroOnly == UNCHANGED <<calcVars, uiVars, thrVars, webVars>>

\* ui.py 44-51: the Start button
StartPress ==
    /\ startPresses + resetPresses < MaxTimerPresses
    /\ reps < MaxReps
    /\ Shows(start_timer(Pomodoro))
    /\ startPresses' = startPresses + 1
    /\ sinceReset' = FALSE
    /\ UNCHANGED resetPresses
    /\ PomodoroOnly

\* ui.py 57-64: the Reset button
ResetPress ==
    /\ startPresses + resetPresses < MaxTimerPresses
    /\ Shows(reset_timer(Pomodoro))
    /\ resetPresses' = resetPresses + 1
    /\ sinceReset' = TRUE
    /\ UNCHANGED startPresses
    /\ PomodoroOnly

\* Tk runs the oldest queued countdown callback
CountdownFires ==
    /\ callbacks # << >>
    /\ Head(callbacks).count = 0 => reps < MaxReps
    /\ Shows(countdown([Pomodoro EXCEPT !.callbacks = Tail(@)], Head(callbacks).count))
    /\ UNCHANGED <<startPresses, resetPresses, sinceReset>>
    /\ PomodoroOnly

NextPomodoro == StartPress \/ ResetPress \/ CountdownFires

SpecPomodoro == InitPomodoro /\ [][NextPomodoro]_vars

SessionCycle ==
    << "Work", "Short Break", "Work", "Short Break",
       "Work", "Short Break", "Work", "Long Break" >>

NumMarks(q) == Len(SelectSeq(q, LAMBDA c : c = "check"))

SingleStart == startPresses = 1 /\ resetPresses = 0

\* C25: after a single Start press from reps = 0 and no Reset, session number
\* reps is Work, Short Break, Work, Short Break, Work, Short Break, Work,
\* Long Break in a cycle of eight, the check-mark box holds reps // 2 marks,
\* one countdown stays queued, and the next session starts exactly when the
\* callback that shows 00:00 runs.
SessionOrder ==
    /\ [] (SingleStart =>
              /\ title_label = SessionCycle[((reps - 1) % 8) + 1]
              /\ NumMarks(check_marks) = reps \div 2
              /\ Len(callbacks) = 1)
    /\ [][ (SingleStart /\ SingleStart') =>
              /\ reps' \in {reps, reps + 1}
              /\ (reps' = reps + 1) <=> (Head(callbacks).count = 0) ]_vars

\* the eighth session of an unattended run: the long break, four marks
SessionOrderWitness ==
    /\ SingleStart
    /\ reps = 8
    /\ title_label = "Long Break"
    /\ check_marks = << "check", "check", "check", "check", "," >>
    /\ timer_text = TimeText(LongBreakSeconds)

\* C26: at most one countdown is queued, the one state.timer names, and from a
\* Reset press until the next Start press nothing is queued, reps is 0 and the
\* window shows 00:00, 'Timer' and no check marks.
ResetStopsTimer ==
    /\ Len(callbacks) <= 1
    /\ \A i \in 1..Len(callbacks) : timer = AfterId(callbacks[i].id)
    /\ sinceReset =>
          /\ callbacks = << >>
          /\ reps = 0
          /\ timer_text = << 0, 0 >>
          /\ title_label = "Timer"
          /\ check_marks = << >>

----------------------------------------------------------------------------
(* SpecFlask: requests of one browser session to the flasky application *)

InitFlask == NoRequests /\ AgeCounterIdle /\ PomodoroBuilt

Protected == { "about", "guess_number" }

\* the response to req goes out
Answered(req) ==
    /\ lastRequest' = req
    /\ prevRoute' = lastRequest.route
    /\ UNCHANGED <<calcVars, uiVars, thrVars, pomVars>>

Request(route, method, ran, response) ==
    [route |-> route, method |-> method, username |-> "absent",
     password |-> "absent", ran |-> ran, response |-> response]

\* app.py 112-137 around a view: its body runs, or the browser is sent to login
Guarded(sess, route, method, body) ==
    IF require_auth(sess)
    THEN body
    ELSE [session |-> sess, request |-> Request(route, method, FALSE, "redirect:login")]

\* app.py 144-152
homepage ==
    /\ session' = session
    /\ Answered(Request("homepage", "GET", TRUE, "index.html"))

\* app.py 155-164
about_page ==
    LET out == Guarded(session, "about", "GET",
                       [session |-> session,
                        request |-> Request("about", "GET", TRUE, "about.html")])
    IN  /\ session' = out.session
        /\ Answered(out.request)

\* app.py 167-216; n is what random.randint returns
login_view(sess, method, u, p, n) ==
    IF method = "POST"
    THEN LET req == [Request("login", "POST", TRUE, "Invalid credentials")
                        EXCEPT !.username = u, !.password = p]
         IN  IF u = "admin" /\ p = "1234"
             THEN [session |-> [sess EXCEPT !.is_authenticated = TRUE,
                                            !.secret_number = n],
                   request |-> [req EXCEPT !.response = "redirect:guess_number"]]
             ELSE [session |-> sess, request |-> req]
    ELSE [session |-> sess, request |-> Request("login", "GET", TRUE, "login.html")]

login ==
    \E method \in {"GET", "POST"}, u \in Usernames, p \in Passwords, n \in SecretNumbers :
        LET out == login_view(session, method, u, p, n)
        IN  /\ session' = out.session
            /\ Answered(out.request)

\* app.py 219-237
logout ==
    /\ session' = EmptySession
    /\ Answered(Request("logout", "GET", TRUE, "redirect:homepage"))

\* app.py 240-273
guess_number ==
    \E method \in {"GET", "POST"}, g \in Guesses :
        LET out == Guarded(session, "guess_number", method,
                           [session |-> session,
                            request |-> Request("guess_number", method, TRUE,
                                                IF method = "POST"
                                                THEN guess_message(g, session)
                                                ELSE "guess_number.html")])
        IN  /\ session' = out.session
            /\ Answered(out.request)

NextFlask == homepage \/ about_page \/ login \/ logout \/ guess_number

SpecFlask == InitFlask /\ [][NextFlask]_vars

\* C27: the bodies of about_page and guess_number run only with the flag set
\* and a request without it is sent to login; the flag comes with a
\* secret_number in 1..10 and is set only by POST /login with 'admin' and
\* '1234'; /logout leaves the flag unset.
AuthenticationGate ==
    /\ [] (lastRequest.route \in Protected =>
              /\ lastRequest.ran => session.is_authenticated
              /\ ~lastRequest.ran => lastRequest.response = "redirect:login")
    /\ [] (session.is_authenticated => session.secret_number \in 1..10)
    /\ [] (lastRequest.route = "logout" => ~session.is_authenticated)
    /\ [][ (~session.is_authenticated /\ session'.is_authenticated) =>
              /\ lastRequest'.route = "login" /\ lastRequest'.method = "POST"
              /\ lastRequest'.username = "admin" /\ lastRequest'.password = "1234" ]_vars
    /\ [][ (~session.is_authenticated /\ lastRequest'.route \in Protected) =>
              /\ ~lastRequest'.ran
              /\ lastRequest'.response = "redirect:login" ]_vars

\* right after /logout a posted guess is sent to the login page
AuthenticationGateWitness ==
    /\ prevRoute = "logout"
    /\ lastRequest.route = "guess_number"
    /\ lastRequest.method = "POST"
    /\ ~lastRequest.ran
    /\ lastRequest.response = "redirect:login"

====
